---- MODULE Spec2Model ----
(***************************************************************************)
(* whoop-to-gsheets: one `sync` run of sync_whoop_to_gsheets.py.           *)
(*                                                                         *)
(* The run pages through the workout API, aggregates running minutes per   *)
(* local day, reads the 'Running' worksheet once, resolves one cell per    *)
(* day and writes the minutes with bounded retry.                          *)
(*                                                                         *)
(* Representation.  Python strings whose content the code inspects         *)
(* (header cells, date cells, UTC offsets, timestamps) are sequences of    *)
(* one-character strings, so that strip(), lower(), split(), int() and     *)
(* strptime() are computed and not assumed.  A datetime.date is its day    *)
(* number counted from 1970-01-01; an aware datetime is a record of its    *)
(* UTC second and its offset in seconds.  A dict whose iteration order the *)
(* code relies on (running_per_day) is a sequence of key/value records in  *)
(* insertion order; a dict that is only looked up (day_columns,            *)
(* week_row_map) is a function.                                            *)
(***************************************************************************)
EXTENDS FiniteSets, Integers, Sequences, TLC

None == "None"

(***************************************************************************)
(* Characters and the str methods the code calls.                          *)
(***************************************************************************)
Digits == <<"0", "1", "2", "3", "4", "5", "6", "7", "8", "9">>

UpperAlpha == <<"A", "B", "C", "D", "E", "F", "G", "H", "I", "J", "K", "L", "M",
                "N", "O", "P", "Q", "R", "S", "T", "U", "V", "W", "X", "Y", "Z">>

LowerAlpha == <<"a", "b", "c", "d", "e", "f", "g", "h", "i", "j", "k", "l", "m",
                "n", "o", "p", "q", "r", "s", "t", "u", "v", "w", "x", "y", "z">>

Whitespace == {" ", "\t", "\n", "\r"}

IsDigit(c) == \E i \in 1..10 : Digits[i] = c

DigitVal(c) == (CHOOSE i \in 1..10 : Digits[i] = c) - 1

\* str.lower() on one character
LowerChar(c) ==
    IF \E i \in 1..26 : UpperAlpha[i] = c
    THEN LowerAlpha[CHOOSE i \in 1..26 : UpperAlpha[i] = c]
    ELSE c

\* str.lower()
Lower(s) == [i \in 1..Len(s) |-> LowerChar(s[i])]

\* str.strip(): drop leading and trailing whitespace
Strip(s) ==
    LET keep == {i \in 1..Len(s) : s[i] \notin Whitespace}
    IN  IF keep = {} THEN <<>>
        ELSE LET lo == CHOOSE i \in keep : \A j \in keep : i <= j
                 hi == CHOOSE i \in keep : \A j \in keep : j <= i
             IN  SubSeq(s, lo, hi)

\* str.split(sep) for a one-character separator: the list of fields
RECURSIVE Split(_, _)
Split(s, sep) ==
    IF \A i \in 1..Len(s) : s[i] # sep THEN <<s>>
    ELSE LET p == CHOOSE i \in 1..Len(s) :
                      s[i] = sep /\ \A j \in 1..(i - 1) : s[j] # sep
         IN  <<SubSeq(s, 1, p - 1)>> \o Split(SubSeq(s, p + 1, Len(s)), sep)

\* the value of a non-empty run of decimal digits
RECURSIVE DigitsVal(_)
DigitsVal(s) ==
    IF Len(s) = 0 THEN 0
    ELSE 10 * DigitsVal(SubSeq(s, 1, Len(s) - 1)) + DigitVal(s[Len(s)])

AllDigits(s) == Len(s) > 0 /\ \A i \in 1..Len(s) : IsDigit(s[i])

Fail == [ok |-> FALSE, val |-> 0]

Ok(v) == [ok |-> TRUE, val |-> v]

\* int(str): surrounding whitespace and one leading sign are accepted,
\* anything else than decimal digits raises ValueError
ParseInt(s) ==
    LET t    == Strip(s)
        sgn  == Len(t) > 0 /\ t[1] \in {"+", "-"}
        body == IF sgn THEN SubSeq(t, 2, Len(t)) ELSE t
    IN  IF ~AllDigits(body) THEN Fail
        ELSE Ok(IF sgn /\ t[1] = "-" THEN 0 - DigitsVal(body) ELSE DigitsVal(body))

\* str(int) for the integers written to a cell
RECURSIVE NatStr(_)
NatStr(n) ==
    IF n < 10 THEN <<Digits[n + 1]>>
    ELSE NatStr(n \div 10) \o <<Digits[(n % 10) + 1]>>

IntStr(n) == IF n < 0 THEN <<"-">> \o NatStr(0 - n) ELSE NatStr(n)

(***************************************************************************)
(* datetime.date as a day number (1970-01-01 = 0).                         *)
(***************************************************************************)
IsLeap(y) == (y % 4 = 0 /\ y % 100 # 0) \/ y % 400 = 0

DaysInMonth(y, m) ==
    IF m = 2 THEN (IF IsLeap(y) THEN 29 ELSE 28)
    ELSE IF m \in {4, 6, 9, 11} THEN 30 ELSE 31

\* date(y, m, d) of the proleptic Gregorian calendar
DaysFromCivil(y, m, d) ==
    LET yy  == IF m <= 2 THEN y - 1 ELSE y
        era == yy \div 400
        yoe == yy - era * 400
        mp  == (m + 9) % 12
        doy == (153 * mp + 2) \div 5 + d - 1
        doe == yoe * 365 + yoe \div 4 - yoe \div 100 + doy
    IN  era * 146097 + doe - 719468

\* date(y, m, d) raises ValueError for a day the month does not have
MakeDate(y, m, d) ==
    IF y \in 1..9999 /\ m \in 1..12 /\ d >= 1 /\ d <= DaysInMonth(y, m)
    THEN Ok(DaysFromCivil(y, m, d))
    ELSE Fail

\* date.weekday(): Monday = 0 .. Sunday = 6
Weekday(d) == (d + 3) % 7

DayNames == << <<"M", "o", "n", "d", "a", "y">>,
               <<"T", "u", "e", "s", "d", "a", "y">>,
               <<"W", "e", "d", "n", "e", "s", "d", "a", "y">>,
               <<"T", "h", "u", "r", "s", "d", "a", "y">>,
               <<"F", "r", "i", "d", "a", "y">>,
               <<"S", "a", "t", "u", "r", "d", "a", "y">>,
               <<"S", "u", "n", "d", "a", "y">> >>

\* the list of line 147: the lower-case weekday names
LowerDayNames == {Lower(DayNames[i]) : i \in 1..7}

\* get_monday(date)
get_monday(d) == d - Weekday(d)

\* get_day_name(date): strftime('%A')
get_day_name(d) == DayNames[Weekday(d) + 1]

\* a strptime field of one or two digits (%m, %d)
Field12(s) == Len(s) \in 1..2 /\ AllDigits(s)

\* datetime.strptime(cell, '%Y-%m-%d').date()
ParseYMD(cell) ==
    LET f == Split(cell, "-")
    IN  IF Len(f) = 3 /\ Len(f[1]) = 4 /\ AllDigits(f[1])
           /\ Field12(f[2]) /\ Field12(f[3])
        THEN MakeDate(DigitsVal(f[1]), DigitsVal(f[2]), DigitsVal(f[3]))
        ELSE Fail

\* datetime.strptime(cell, '%d/%m/%y').date(): %y below 69 is 20yy
ParseDMY(cell) ==
    LET f == Split(cell, "/")
    IN  IF Len(f) = 3 /\ Field12(f[1]) /\ Field12(f[2])
           /\ Len(f[3]) = 2 /\ AllDigits(f[3])
        THEN LET yy == DigitsVal(f[3])
             IN  MakeDate(IF yy < 69 THEN 2000 + yy ELSE 1900 + yy,
                          DigitsVal(f[2]), DigitsVal(f[1]))
        ELSE Fail

\* lines 170-173: YYYY-MM-DD first, DD/MM/YY as the fallback
ParseCellDate(cell) ==
    IF ParseYMD(cell).ok THEN ParseYMD(cell) ELSE ParseDMY(cell)

(***************************************************************************)
(* Timestamp Localizer: parse_whoop_local_datetime.                        *)
(***************************************************************************)
\* the two-digit field of s at positions p, p + 1
Field2(s, p) == DigitsVal(SubSeq(s, p, p + 1))

\* datetime.fromisoformat(dt_str.replace('Z', '+00:00')) for the form the
\* API sends, YYYY-MM-DDTHH:MM:SSZ: the UTC second of the instant
ParseIsoUtc(s) ==
    IF Len(s) = 20
       /\ s[5] = "-" /\ s[8] = "-" /\ s[11] = "T" /\ s[14] = ":" /\ s[17] = ":"
       /\ s[20] = "Z"
       /\ \A i \in {1, 2, 3, 4, 6, 7, 9, 10, 12, 13, 15, 16, 18, 19} : IsDigit(s[i])
    THEN LET day == MakeDate(DigitsVal(SubSeq(s, 1, 4)), Field2(s, 6), Field2(s, 9))
             hh  == Field2(s, 12)
             mm  == Field2(s, 15)
             ss  == Field2(s, 18)
         IN  IF day.ok /\ hh < 24 /\ mm < 60 /\ ss < 60
             THEN Ok(day.val * 86400 + hh * 3600 + mm * 60 + ss)
             ELSE Fail
    ELSE Fail

\* line 49: every first character other than '+' counts as a minus sign
OffsetSign(timezone_offset) == IF timezone_offset[1] = "+" THEN 1 ELSE -1

\* lines 49-52: the offset in seconds; an empty string (IndexError), a wrong
\* number of fields or a field int() rejects (ValueError), and an offset
\* timezone() rejects (not strictly within a day) all raise
ParseOffset(timezone_offset) ==
    IF Len(timezone_offset) = 0 THEN Fail
    ELSE LET f == Split(SubSeq(timezone_offset, 2, Len(timezone_offset)), ":")
         IN  IF Len(f) # 2 \/ ~ParseInt(f[1]).ok \/ ~ParseInt(f[2]).ok THEN Fail
             ELSE LET secs == (ParseInt(f[1]).val * 3600 + ParseInt(f[2]).val * 60)
                              * OffsetSign(timezone_offset)
                  IN  IF secs > -86400 /\ secs < 86400 THEN Ok(secs) ELSE Fail

\* parse_whoop_local_datetime: the aware datetime, as its UTC second and its
\* offset in seconds
parse_whoop_local_datetime(dt_str, timezone_offset) ==
    LET u == ParseIsoUtc(dt_str)
        o == ParseOffset(timezone_offset)
    IN  IF u.ok /\ o.ok THEN [ok |-> TRUE, utc |-> u.val, off |-> o.val]
        ELSE [ok |-> FALSE, utc |-> 0, off |-> 0]

\* the calendar day of the UTC instant, whatever the offset
LocalDateUtc(dt) == dt.utc \div 86400

\* datetime.date() of an aware datetime: the calendar day of its wall clock
LocalDate(dt) == (dt.utc + dt.off) \div 86400

\* minutes rounded to the nearest minute
TruncMinutesRounding(seconds) == (seconds + 30) \div 60

\* int(x / 60): truncation towards zero
TruncMinutes(seconds) ==
    IF seconds >= 0 THEN seconds \div 60 ELSE 0 - ((0 - seconds) \div 60)

\* line 112: int((end_dt - start_dt).total_seconds() / 60)
DurationMin(start_dt, end_dt) == TruncMinutes(end_dt.utc - start_dt.utc)

(***************************************************************************)
(* The workout records the activity source may return.  A record is a      *)
(* function of the keys it has: w.get(k) of a missing key is None.         *)
(***************************************************************************)
UtcOffset == <<"+", "0", "0", ":", "0", "0">>

Plus2 == <<"+", "0", "2", ":", "0", "0">>

Minus5 == <<"-", "0", "5", ":", "0", "0">>

\* id 1, running, Monday 2024-06-10 10:00-10:30 UTC
RunA == [id |-> 1, sport_id |-> 0,
         start |-> <<"2", "0", "2", "4", "-", "0", "6", "-", "1", "0", "T", "1", "0", ":", "0", "0", ":", "0", "0", "Z">>,
         end |-> <<"2", "0", "2", "4", "-", "0", "6", "-", "1", "0", "T", "1", "0", ":", "3", "0", ":", "0", "0", "Z">>,
         timezone_offset |-> UtcOffset]

\* id 1 again, not a running activity
CycleA == [id |-> 1, sport_id |-> 1,
           start |-> <<"2", "0", "2", "4", "-", "0", "6", "-", "1", "0", "T", "1", "0", ":", "0", "0", ":", "0", "0", "Z">>,
           end |-> <<"2", "0", "2", "4", "-", "0", "6", "-", "1", "0", "T", "1", "0", ":", "3", "0", ":", "0", "0", "Z">>,
           timezone_offset |-> UtcOffset]

\* id 1 again, running, 45 minutes that start on Tuesday local time
LateA == [id |-> 1, sport_id |-> 0,
          start |-> <<"2", "0", "2", "4", "-", "0", "6", "-", "1", "0", "T", "2", "3", ":", "3", "0", ":", "0", "0", "Z">>,
          end |-> <<"2", "0", "2", "4", "-", "0", "6", "-", "1", "1", "T", "0", "0", ":", "1", "5", ":", "0", "0", "Z">>,
          timezone_offset |-> Plus2]

\* id 2, running, 45 seconds on Tuesday 2024-06-11, no timezone_offset key
ShortB == [id |-> 2, sport_id |-> 0,
           start |-> <<"2", "0", "2", "4", "-", "0", "6", "-", "1", "1", "T", "1", "0", ":", "0", "0", ":", "0", "0", "Z">>,
           end |-> <<"2", "0", "2", "4", "-", "0", "6", "-", "1", "1", "T", "1", "0", ":", "0", "0", ":", "4", "5", "Z">>]

\* no id key
NoId == [sport_id |-> 0,
         start |-> <<"2", "0", "2", "4", "-", "0", "6", "-", "1", "0", "T", "1", "0", ":", "0", "0", ":", "0", "0", "Z">>,
         end |-> <<"2", "0", "2", "4", "-", "0", "6", "-", "1", "0", "T", "1", "0", ":", "3", "0", ":", "0", "0", "Z">>,
         timezone_offset |-> UtcOffset]

\* id 3, running, ends 90 seconds before it starts, Sunday 2024-06-16 local
NegC == [id |-> 3, sport_id |-> 0,
         start |-> <<"2", "0", "2", "4", "-", "0", "6", "-", "1", "7", "T", "0", "2", ":", "0", "0", ":", "0", "0", "Z">>,
         end |-> <<"2", "0", "2", "4", "-", "0", "6", "-", "1", "7", "T", "0", "1", ":", "5", "8", ":", "3", "0", "Z">>,
         timezone_offset |-> Minus5]

\* id 4, running, with a timezone_offset that is no offset at all
BadD == [id |-> 4, sport_id |-> 0,
         start |-> <<"2", "0", "2", "4", "-", "0", "6", "-", "1", "0", "T", "1", "0", ":", "0", "0", ":", "0", "0", "Z">>,
         end |-> <<"2", "0", "2", "4", "-", "0", "6", "-", "1", "0", "T", "1", "0", ":", "3", "0", ":", "0", "0", "Z">>,
         timezone_offset |-> <<"U", "T", "C">>]

\* id 5, running, 20 minutes on Tuesday 2024-06-11
RunE == [id |-> 5, sport_id |-> 0,
         start |-> <<"2", "0", "2", "4", "-", "0", "6", "-", "1", "1", "T", "0", "6", ":", "0", "0", ":", "0", "0", "Z">>,
         end |-> <<"2", "0", "2", "4", "-", "0", "6", "-", "1", "1", "T", "0", "6", ":", "2", "0", ":", "0", "0", "Z">>,
         timezone_offset |-> UtcOffset]

\* id 6, running, 90 seconds across midnight UTC, Wednesday 2024-06-12
Ninety1 == [id |-> 6, sport_id |-> 0,
            start |-> <<"2", "0", "2", "4", "-", "0", "6", "-", "1", "2", "T", "2", "3", ":", "5", "9", ":", "0", "0", "Z">>,
            end |-> <<"2", "0", "2", "4", "-", "0", "6", "-", "1", "3", "T", "0", "0", ":", "0", "0", ":", "3", "0", "Z">>,
            timezone_offset |-> UtcOffset]

\* id 7, running, 90 seconds on Wednesday 2024-06-12
Ninety2 == [id |-> 7, sport_id |-> 0,
            start |-> <<"2", "0", "2", "4", "-", "0", "6", "-", "1", "2", "T", "0", "8", ":", "0", "0", ":", "0", "0", "Z">>,
            end |-> <<"2", "0", "2", "4", "-", "0", "6", "-", "1", "2", "T", "0", "8", ":", "0", "1", ":", "3", "0", "Z">>,
            timezone_offset |-> UtcOffset]

\* id 8, running, Monday 2024-06-10 01:00-01:30 UTC, offset without a sign
OddG == [id |-> 8, sport_id |-> 0,
         start |-> <<"2", "0", "2", "4", "-", "0", "6", "-", "1", "0", "T", "0", "1", ":", "0", "0", ":", "0", "0", "Z">>,
         end |-> <<"2", "0", "2", "4", "-", "0", "6", "-", "1", "0", "T", "0", "1", ":", "3", "0", ":", "0", "0", "Z">>,
         timezone_offset |-> <<"0", "2", ":", "0", "0">>]

Workouts == {RunA, CycleA, LateA, ShortB, NoId, NegC, BadD, RunE,
             Ninety1, Ninety2, OddG}

(***************************************************************************)
(* Activity Aggregator: lines 93-127.                                      *)
(***************************************************************************)
RUNNING_SPORT_IDS == {0}

\* w.get(key), w.get(key, default)
Get(w, key, default) == IF key \in DOMAIN w THEN w[key] ELSE default

\* line 101: `not workout_id` for a missing, None or zero id
MissingId(w) == "id" \notin DOMAIN w \/ w["id"] = 0

\* a loop that never consults seen_workout_ids
SeenBeforeIgnored(w, seen) == FALSE

\* line 104: workout_id in seen_workout_ids
SeenBefore(w, seen) == w["id"] \in seen

\* line 107
NotRunning(w) == "sport_id" \notin DOMAIN w \/ w["sport_id"] \notin RUNNING_SPORT_IDS

\* key in running_per_day
HasKey(dict, key) == \E i \in 1..Len(dict) : dict[i].key = key

\* a bucket that is assigned instead of added to
AddMinutesOverwriting(dict, key, minutes) ==
    IF HasKey(dict, key)
    THEN [i \in 1..Len(dict) |->
             IF dict[i].key = key THEN [key |-> key, val |-> minutes] ELSE dict[i]]
    ELSE Append(dict, [key |-> key, val |-> minutes])

\* lines 118-120: create the bucket at 0 if absent, then add
AddMinutes(dict, key, minutes) ==
    IF HasKey(dict, key)
    THEN [i \in 1..Len(dict) |->
             IF dict[i].key = key
             THEN [key |-> key, val |-> dict[i].val + minutes]
             ELSE dict[i]]
    ELSE Append(dict, [key |-> key, val |-> 0 + minutes])

\* one iteration of the loop of line 99; acc is the loop's state:
\* running_per_day, seen_workout_ids, and whether an exception was raised
ProcessWorkout(acc, w) ==
    IF ~acc.ok \/ MissingId(w) THEN acc
    ELSE IF SeenBefore(w, acc.seen) \/ NotRunning(w) THEN acc
    ELSE LET tz       == Get(w, "timezone_offset", UtcOffset)
             start_dt == parse_whoop_local_datetime(w["start"], tz)
             end_dt   == parse_whoop_local_datetime(w["end"], tz)
         IN  IF ~start_dt.ok \/ ~end_dt.ok THEN [acc EXCEPT !.ok = FALSE]
             ELSE [ok   |-> TRUE,
                   dict |-> AddMinutes(acc.dict, LocalDate(start_dt),
                                       DurationMin(start_dt, end_dt)),
                   seen |-> acc.seen \cup {w["id"]}]

\* lines 93-127 over all_workouts, in fetch order
RECURSIVE AggregateFrom(_, _)
AggregateFrom(acc, workouts) ==
    IF Len(workouts) = 0 THEN acc
    ELSE AggregateFrom(ProcessWorkout(acc, Head(workouts)), Tail(workouts))

Aggregated(workouts) ==
    AggregateFrom([ok |-> TRUE, dict |-> <<>>, seen |-> {}], workouts)

(***************************************************************************)
(* The 'Running' worksheets the run may find: get_all_values() is a list   *)
(* of rows of cell strings, the first row being the header.                *)
(***************************************************************************)
\* row 5 is the week of 2024-06-10; Monday in column 2, Tuesday in column 3
SheetWeeks ==
    << <<<<>>,
         <<"M", "o", "n", "d", "a", "y">>,
         <<"T", "u", "e", "s", "d", "a", "y">>>>,
       <<<<"0", "3", "/", "0", "6", "/", "2", "4">>,
         <<>>,
         <<>>>>,
       <<<<"n", "o", "t", "e">>,
         <<>>,
         <<>>>>,
       <<<<"1", "7", "/", "0", "6", "/", "2", "4">>,
         <<>>,
         <<>>>>,
       <<<<"2", "0", "2", "4", "-", "0", "6", "-", "1", "0">>,
         <<>>,
         <<"7">>>> >>

\* weekday headers in other spellings
SheetSpelling ==
    << <<<<"W", "e", "e", "k">>,
         <<" ", "M", "o", "n", "d", "a", "y", " ">>,
         <<"t", "u", "e", "s", "d", "a", "y">>,
         <<"S", "U", "N", "D", "A", "Y">>>>,
       <<<<"1", "0", "/", "0", "6", "/", "2", "4">>,
         <<>>,
         <<>>,
         <<>>>> >>

\* the week of 2024-06-10 on two rows, two dates on one row, Monday first
SheetTwice ==
    << <<<<"M", "o", "n", "d", "a", "y">>,
         <<"T", "u", "e", "s", "d", "a", "y">>,
         <<"W", "e", "e", "k">>,
         <<"S", "u", "n", "d", "a", "y">>>>,
       <<<<"5">>,
         <<>>,
         <<"2", "0", "2", "4", "-", "0", "6", "-", "1", "0">>,
         <<>>>>,
       <<<<>>,
         <<>>,
         <<"1", "0", "/", "0", "6", "/", "2", "4">>,
         <<"2", "0", "2", "4", "-", "0", "6", "-", "1", "7">>>> >>

\* a header row without any weekday
SheetNoDays ==
    << <<<<"W", "e", "e", "k">>,
         <<"N", "o", "t", "e", "s">>>>,
       <<<<"2", "0", "2", "4", "-", "0", "6", "-", "1", "0">>,
         <<>>>> >>

\* the week of 2024-06-10 on two rows, the later one marked in the Monday
\* column itself
SheetMarkerUnderDay ==
    << <<<<"M", "o", "n", "d", "a", "y">>,
         <<"T", "u", "e", "s", "d", "a", "y">>,
         <<"W", "e", "e", "k">>>>,
       <<<<>>,
         <<>>,
         <<"2", "0", "2", "4", "-", "0", "6", "-", "1", "0">>>>,
       <<<<"2", "0", "2", "4", "-", "0", "6", "-", "1", "0">>,
         <<>>,
         <<>>>> >>

SheetEmpty == <<>>

Sheets == {SheetWeeks, SheetSpelling, SheetTwice, SheetNoDays, SheetEmpty,
           SheetMarkerUnderDay}

(***************************************************************************)
(* Week-Grid Resolver: lines 146-177.                                      *)
(***************************************************************************)
\* dict[key] = value
DictPut(dict, key, value) ==
    [k \in (DOMAIN dict) \cup {key} |-> IF k = key THEN value ELSE dict[k]]

EmptyDict == [k \in {} |-> 0]

\* a filter that takes every non-blank header cell for a weekday
IsDayHeaderAnyText(day) == Strip(day) # <<>>

\* line 147, the filter: day.strip().lower() in [...]
IsDayHeader(day) == Lower(Strip(day)) \in LowerDayNames

\* line 147, the key: day.strip()
DayKey(day) == Strip(day)

\* line 147: the dict comprehension over enumerate(headers), idx from 0
RECURSIVE DayColumnsFrom(_, _, _)
DayColumnsFrom(dict, headers, idx) ==
    IF idx >= Len(headers) THEN dict
    ELSE DayColumnsFrom(IF IsDayHeader(headers[idx + 1])
                        THEN DictPut(dict, DayKey(headers[idx + 1]), idx)
                        ELSE dict,
                        headers, idx + 1)

DayColumns(headers) == DayColumnsFrom(EmptyDict, headers, 0)

\* lines 167-177 for one row: the first cell that parses as a date
RECURSIVE RowDate(_)
RowDate(row) ==
    IF Len(row) = 0 THEN Fail
    ELSE IF ParseCellDate(Head(row)).ok THEN ParseCellDate(Head(row))
    ELSE RowDate(Tail(row))

\* a map that keeps the first row of a date
PutWeekRowOnce(map, week_monday, i) ==
    IF week_monday \in DOMAIN map THEN map ELSE DictPut(map, week_monday, i)

\* line 174: week_row_map[week_monday] = i
PutWeekRow(map, week_monday, i) == DictPut(map, week_monday, i)

\* lines 165-177: enumerate(all_values[1:], start=2)
RECURSIVE WeekRowsFrom(_, _, _)
WeekRowsFrom(map, values, i) ==
    IF i > Len(values) THEN map
    ELSE WeekRowsFrom(IF RowDate(values[i]).ok
                      THEN PutWeekRow(map, RowDate(values[i]).val, i)
                      ELSE map,
                      values, i + 1)

WeekRowMap(values) == WeekRowsFrom(EmptyDict, values, 2)

(***************************************************************************)
(* Bounds and program constants.                                           *)
(***************************************************************************)
\* the activity source holds at most this many records in one run
MaxRecords == 2

\* line 88: if page_count > 100
PageLimit == 100

\* line 179: @retry_with_backoff(max_retries=3, ...)
max_retries == 3

\* all sequences over S of length at most n
RECURSIVE SeqsUpTo(_, _)
SeqsUpTo(S, n) ==
    IF n = 0 THEN {<<>>}
    ELSE LET shorter == SeqsUpTo(S, n - 1)
         IN  shorter \cup {Append(s, x) : s \in shorter, x \in S}

(***************************************************************************)
(* State.                                                                  *)
(***************************************************************************)
VARIABLES
    pc,               \* where the sync run stands
    error,            \* the exception that ended the run, "" if none
    page_count,       \* get_running_activities_with_token: pages requested
    status,           \* resp.status_code of the last response
    next_token,       \* data.get("next_token") of the last response
    all_workouts,     \* records collected so far, in fetch order
    running_per_day,  \* the DailyAggregate, in insertion order
    sheet,            \* the 'Running' worksheet, from the read onwards
    grid_reads,       \* calls of worksheet.get_all_values()
    all_values,       \* update_running_sheet: the grid as read
    day_columns,      \* weekday header -> 0-based column
    week_row_map,     \* date -> 1-based sheet row
    pos,              \* next entry of running_per_day.items(), from 1
    attempt,          \* retry_with_backoff: attempt of the write in progress
    updates,          \* cells written so far
    calls,            \* calls of worksheet.update_cell, with their outcome
    ret               \* <<n>> once update_running_sheet has returned n

vars == <<pc, error, page_count, status, next_token, all_workouts,
          running_per_day, sheet, grid_reads, all_values, day_columns,
          week_row_map, pos, attempt, updates, calls, ret>>

fetchVars == <<page_count, status, next_token, all_workouts>>

sheetVars == <<all_values, day_columns, week_row_map>>

loopVars == <<pos, attempt, updates, calls, ret>>

Init ==
    /\ pc = "fetch"
    /\ error = ""
    /\ page_count = 0
    /\ status = 0
    /\ next_token = None
    /\ all_workouts = <<>>
    /\ running_per_day = <<>>
    /\ sheet = <<>>
    /\ grid_reads = 0
    /\ all_values = <<>>
    /\ day_columns = EmptyDict
    /\ week_row_map = EmptyDict
    /\ pos = 0
    /\ attempt = 0
    /\ updates = 0
    /\ calls = <<>>
    /\ ret = <<>>

(***************************************************************************)
(* get_running_activities_with_token, the pagination loop: lines 63-90.    *)
(***************************************************************************)
\* a check that takes only 4xx answers for failures
RequestFailedOnly4xx(status_code) == status_code \in 400..499

\* line 67
RequestFailed(status_code) == status_code # 200

\* line 88
CeilingReached(count) == count > PageLimit

\* what the activity source may answer: an error status, or a page of
\* records with or without a continuation token
Responses ==
    {[status_code |-> 500, records |-> <<>>, next_token |-> None]}
    \cup [status_code : {200},
          records : SeqsUpTo(Workouts, MaxRecords - Len(all_workouts)),
          next_token : {None, "tok"}]

\* one iteration of `while True`
FetchPage ==
    /\ pc = "fetch"
    /\ \E resp \in Responses :
          /\ page_count' = page_count + 1
          /\ status' = resp.status_code
          /\ IF RequestFailed(resp.status_code)
             THEN /\ pc' = "error"
                  /\ error' = "FetchError"
                  /\ UNCHANGED <<next_token, all_workouts>>
             ELSE /\ all_workouts' = all_workouts \o resp.records
                  /\ next_token' = resp.next_token
                  /\ pc' = IF resp.next_token = None
                              \/ CeilingReached(page_count + 1)
                           THEN "aggregate" ELSE "fetch"
                  /\ UNCHANGED error
    /\ UNCHANGED <<running_per_day, sheet, grid_reads>>
    /\ UNCHANGED sheetVars
    /\ UNCHANGED loopVars

\* lines 92-127 and the return to sync (line 213).  The loop's locals end
\* with the call; all_workouts is kept as the record of what the source
\* delivered in this run.
Aggregate ==
    /\ pc = "aggregate"
    /\ LET acc == Aggregated(all_workouts)
       IN  IF acc.ok
           THEN /\ running_per_day' = acc.dict
                /\ pc' = "sheet"
                /\ page_count' = 0
                /\ status' = 0
                /\ next_token' = None
                /\ UNCHANGED <<all_workouts, error>>
           ELSE /\ pc' = "error"
                /\ error' = "ParseError"
                /\ UNCHANGED running_per_day
                /\ UNCHANGED fetchVars
    /\ UNCHANGED <<sheet, grid_reads>>
    /\ UNCHANGED sheetVars
    /\ UNCHANGED loopVars

(***************************************************************************)
(* sync, lines 214-218, and update_running_sheet, lines 142-200.           *)
(***************************************************************************)
\* a sync that opens the worksheet also for an empty aggregate
NothingToSyncReads ==
    /\ pc = "sheet"
    /\ running_per_day = <<>>
    /\ pc' = "done"
    /\ grid_reads' = grid_reads + 1
    /\ ret' = <<0>>
    /\ UNCHANGED <<error, running_per_day, sheet>>
    /\ UNCHANGED fetchVars
    /\ UNCHANGED sheetVars
    /\ UNCHANGED <<pos, attempt, updates, calls>>

\* lines 214-216: nothing to sync
NothingToSync ==
    /\ pc = "sheet"
    /\ running_per_day = <<>>
    /\ pc' = "done"
    /\ UNCHANGED <<error, running_per_day, sheet, grid_reads>>
    /\ UNCHANGED fetchVars
    /\ UNCHANGED sheetVars
    /\ UNCHANGED loopVars

\* lines 142-177: read the grid once, resolve the columns and the rows.
\* The worksheet is what get_all_values() finds; nobody else writes to it
\* during the run, so from here on `sheet` is its content.
ReadSheet ==
    /\ pc = "sheet"
    /\ running_per_day # <<>>
    /\ \E grid \in Sheets :
          /\ sheet' = grid
          /\ grid_reads' = grid_reads + 1
          /\ all_values' = grid
          /\ IF Len(grid) = 0
             THEN /\ ret' = <<0>>
                  /\ pc' = "done"
                  /\ UNCHANGED <<day_columns, week_row_map, pos, updates>>
             ELSE /\ day_columns' = DayColumns(grid[1])
                  /\ IF DOMAIN DayColumns(grid[1]) = {}
                     THEN /\ ret' = <<0>>
                          /\ pc' = "done"
                          /\ UNCHANGED <<week_row_map, pos, updates>>
                     ELSE /\ week_row_map' = WeekRowMap(grid)
                          /\ pos' = 1
                          /\ updates' = 0
                          /\ pc' = "update"
                          /\ UNCHANGED ret
    /\ UNCHANGED <<error, running_per_day, attempt, calls>>
    /\ UNCHANGED fetchVars

\* lines 186-190: `row_idx and col_idx is not None`
Resolves(date, rows, columns) ==
    /\ get_monday(date) \in DOMAIN rows
    /\ rows[get_monday(date)] # 0
    /\ get_day_name(date) \in DOMAIN columns

\* a test that lets zero through
ShouldWriteZeroToo(minutes) == minutes >= 0

\* line 191
ShouldWrite(minutes) == minutes > 0

\* line 182: worksheet.update_cell(row_idx, col_idx + 1, minutes)
CellRow(date, rows) == rows[get_monday(date)]

\* the 0-based header position passed on as the sheet column
CellColZeroBased(date, columns) == columns[get_day_name(date)]

CellCol(date, columns) == columns[get_day_name(date)] + 1

\* an update_cell that appends to the text of the cell
SetCellAdding(grid, row, col, value) ==
    [grid EXCEPT ![row] = [@ EXCEPT ![col] = @ \o IntStr(value)]]

\* the worksheet after update_cell(row, col, value) has succeeded
SetCell(grid, row, col, value) ==
    [grid EXCEPT ![row] = [@ EXCEPT ![col] = IntStr(value)]]

\* lines 185-198 when every update_cell call is accepted: the worksheet
\* after the entries i .. len(running_per_day) have been processed
RECURSIVE ApplyFrom(_, _, _, _, _)
ApplyFrom(grid, dict, rows, columns, i) ==
    IF i > Len(dict) THEN grid
    ELSE ApplyFrom(IF /\ Resolves(dict[i].key, rows, columns)
                      /\ ShouldWrite(dict[i].val)
                   THEN SetCell(grid, CellRow(dict[i].key, rows),
                                CellCol(dict[i].key, columns), dict[i].val)
                   ELSE grid,
                   dict, rows, columns, i + 1)

\* lines 142-200: the worksheet that one complete call of
\* update_running_sheet(running_per_day) leaves when it found `grid`
ApplyAll(grid, dict) ==
    IF Len(grid) = 0 THEN grid
    ELSE IF DOMAIN DayColumns(grid[1]) = {} THEN grid
    ELSE ApplyFrom(grid, dict, WeekRowMap(grid), DayColumns(grid[1]), 1)

\* a write that is not counted
CountUpdateMissing(n) == n

\* line 194: updates += 1
CountUpdate(n) == n + 1

\* one retry too many: range(max_retries + 2)
RetriesExhaustedLate(n) == n = max_retries + 1

\* one retry too few: range(max_retries)
RetriesExhaustedEarly(n) == n = max_retries - 1

\* line 27: the attempt that fails for the last time
RetriesExhausted(n) == n = max_retries

\* an update loop that ends at the first entry it does not write
SkipEntryStops ==
    /\ pc = "update"
    /\ pos <= Len(running_per_day)
    /\ LET e == running_per_day[pos]
       IN  ~Resolves(e.key, week_row_map, day_columns) \/ ~ShouldWrite(e.val)
    /\ pos' = Len(running_per_day) + 1
    /\ UNCHANGED <<pc, error, running_per_day, sheet, grid_reads,
                   attempt, updates, calls, ret>>
    /\ UNCHANGED fetchVars
    /\ UNCHANGED sheetVars

\* lines 185-198, an entry that needs no write: not resolved (line 198) or
\* not positive (line 196)
SkipEntry ==
    /\ pc = "update"
    /\ pos <= Len(running_per_day)
    /\ LET e == running_per_day[pos]
       IN  ~Resolves(e.key, week_row_map, day_columns) \/ ~ShouldWrite(e.val)
    /\ pos' = pos + 1
    /\ UNCHANGED <<pc, error, running_per_day, sheet, grid_reads,
                   attempt, updates, calls, ret>>
    /\ UNCHANGED fetchVars
    /\ UNCHANGED sheetVars

\* lines 191-194 with the wrapper of lines 22-35: one attempt of
\* update_single_cell, which the spreadsheet API accepts or rejects; a
\* rejected call leaves the worksheet as it was
AttemptWrite ==
    /\ pc = "update"
    /\ pos <= Len(running_per_day)
    /\ LET e   == running_per_day[pos]
           row == CellRow(e.key, week_row_map)
           col == CellCol(e.key, day_columns)
       IN  /\ Resolves(e.key, week_row_map, day_columns)
           /\ ShouldWrite(e.val)
           /\ \E accepted \in BOOLEAN :
                 /\ calls' = Append(calls, [row |-> row, col |-> col,
                                            value |-> e.val, ok |-> accepted])
                 /\ IF accepted
                    THEN /\ sheet' = SetCell(sheet, row, col, e.val)
                         /\ updates' = CountUpdate(updates)
                         /\ pos' = pos + 1
                         /\ attempt' = 0
                         /\ UNCHANGED <<pc, error>>
                    ELSE /\ IF RetriesExhausted(attempt)
                            THEN /\ pc' = "error"
                                 /\ error' = "WriteError"
                                 /\ UNCHANGED attempt
                            ELSE /\ attempt' = attempt + 1
                                 /\ UNCHANGED <<pc, error>>
                         /\ UNCHANGED <<sheet, updates, pos>>
    /\ UNCHANGED <<running_per_day, grid_reads, ret>>
    /\ UNCHANGED fetchVars
    /\ UNCHANGED sheetVars

\* a return that reads the grid once more
ReturnUpdatesRereading ==
    /\ pc = "update"
    /\ pos > Len(running_per_day)
    /\ ret' = <<updates>>
    /\ pc' = "done"
    /\ grid_reads' = grid_reads + 1
    /\ UNCHANGED <<error, running_per_day, sheet,
                   pos, attempt, updates, calls>>
    /\ UNCHANGED fetchVars
    /\ UNCHANGED sheetVars

\* lines 199-200, and sync's line 218
ReturnUpdates ==
    /\ pc = "update"
    /\ pos > Len(running_per_day)
    /\ ret' = <<updates>>
    /\ pc' = "done"
    /\ UNCHANGED <<error, running_per_day, sheet, grid_reads,
                   pos, attempt, updates, calls>>
    /\ UNCHANGED fetchVars
    /\ UNCHANGED sheetVars

Next ==
    \/ FetchPage
    \/ Aggregate
    \/ NothingToSync
    \/ ReadSheet
    \/ SkipEntry
    \/ AttemptWrite
    \/ ReturnUpdates

Spec == Init /\ [][Next]_vars

(***************************************************************************)
(* Vocabulary of the properties.                                           *)
(***************************************************************************)
\* get_running_activities_with_token has returned its aggregate to sync
AggregateReturned ==
    pc \in {"sheet", "update", "done"} \/ (pc = "error" /\ error = "WriteError")

\* sync holds the aggregate that was just returned; all_workouts and
\* running_per_day do not change from here on
JustAggregated == pc = "sheet"

\* update_running_sheet has resolved the grid and entered its update loop
GridResolved == pos > 0

\* update_running_sheet has returned normally
Returned == pc = "done" /\ ret # <<>>

\* a DailyAggregate as a mapping: its set of (date, minutes) pairs
AsMap(dict) == {<<dict[i].key, dict[i].val>> : i \in 1..Len(dict)}

HasId(w) == "id" \in DOMAIN w /\ w["id"] # 0

IsRun(w) == HasId(w) /\ "sport_id" \in DOMAIN w /\ w["sport_id"] = 0

\* the local start date and the whole minutes of a record
StartOf(w) ==
    parse_whoop_local_datetime(w["start"], Get(w, "timezone_offset", UtcOffset))

EndOf(w) ==
    parse_whoop_local_datetime(w["end"], Get(w, "timezone_offset", UtcOffset))

DateOf(w) == LocalDate(StartOf(w))

MinutesOf(w) == DurationMin(StartOf(w), EndOf(w))

\* the minutes the records ws[i], i in I, have on date d
RECURSIVE SumOn(_, _, _)
SumOn(ws, I, d) ==
    IF I = {} THEN 0
    ELSE LET i == CHOOSE k \in I : TRUE
         IN  (IF DateOf(ws[i]) = d THEN MinutesOf(ws[i]) ELSE 0)
             + SumOn(ws, I \ {i}, d)

\* the mapping date -> total minutes of the records ws[i], i in I
TotalsOf(ws, I) == {<<DateOf(ws[i]), SumOn(ws, I, DateOf(ws[i]))>> : i \in I}

\* ws[i] is the first record of ws that carries its identifier
FirstWithId(ws, i) ==
    HasId(ws[i]) /\ \A j \in 1..(i - 1) : ~(HasId(ws[j]) /\ ws[j]["id"] = ws[i]["id"])

\* ws[i] is the first running record of ws that carries its identifier
FirstRunWithId(ws, i) ==
    IsRun(ws[i]) /\ \A j \in 1..(i - 1) : ~(IsRun(ws[j]) /\ ws[j]["id"] = ws[i]["id"])

\* records that share an identifier are the same record
SameIdSameRecord(ws) ==
    \A i, j \in 1..Len(ws) :
        (HasId(ws[i]) /\ HasId(ws[j]) /\ ws[i]["id"] = ws[j]["id"]) => ws[i] = ws[j]

Reordered(ws, p) == [i \in 1..Len(ws) |-> ws[p[i]]]

\* the calls of update_cell that were accepted, in order
OkCalls == SelectSeq(calls, LAMBDA c : c.ok)

\* the calls of update_cell at one cell
CallsAt(row, col) == SelectSeq(calls, LAMBDA c : c.row = row /\ c.col = col)

(***************************************************************************)
(* C1.  Pagination ceiling: a source that returns a continuation token on  *)
(* every response is asked for exactly 100 pages; then pagination stops    *)
(* and the aggregate of the records collected so far is returned without   *)
(* an error.  (The loop has ended with a token in hand only at the         *)
(* ceiling.)                                                               *)
(***************************************************************************)
C1_CeilingAfter100Requests ==
    (pc = "aggregate" /\ next_token # None) => page_count = 100

(***************************************************************************)
(* C2.  A page request answered with a status other than 200, the first or *)
(* a later one, ends the run with an error: no aggregate is returned, the  *)
(* worksheet is never read and no cell is written, whatever earlier pages  *)
(* delivered.                                                              *)
(***************************************************************************)
C2_FetchFailureAborts ==
    (page_count > 0 /\ status # 200) =>
        /\ pc = "error"
        /\ error = "FetchError"
        /\ running_per_day = <<>>
        /\ grid_reads = 0
        /\ calls = <<>>
        /\ sheet = <<>>
        /\ ret = <<>>

\* a later page fails after earlier pages delivered records
C2_Witness ==
    /\ pc = "error"
    /\ status = 500
    /\ page_count > 1
    /\ Len(all_workouts) > 0

(***************************************************************************)
(* C3.  Deduplication.  As claimed: the aggregate holds, for each          *)
(* identifier, the record that comes first in fetch order and nothing      *)
(* else with that identifier.                                              *)
(***************************************************************************)
C3_FirstOfEachIdOnly ==
    JustAggregated =>
        AsMap(running_per_day) =
            TotalsOf(all_workouts,
                     {i \in 1..Len(all_workouts) :
                         FirstWithId(all_workouts, i) /\ IsRun(all_workouts[i])})

(***************************************************************************)
(* C3, amended.  Each identifier contributes at most once: of the records  *)
(* that carry one identifier, the first running one in fetch order is      *)
(* added and every later one is discarded (a record that is not a running  *)
(* activity does not use up its identifier).  No date has two buckets.     *)
(***************************************************************************)
C3_FirstRunOfEachIdOnly ==
    JustAggregated =>
        /\ AsMap(running_per_day) =
               TotalsOf(all_workouts,
                        {i \in 1..Len(all_workouts) : FirstRunWithId(all_workouts, i)})
        /\ Cardinality({running_per_day[i].key : i \in 1..Len(running_per_day)})
               = Len(running_per_day)

\* two running records with one identifier were fetched; the first counts
C3_Witness ==
    /\ AggregateReturned
    /\ all_workouts = <<RunA, LateA>>
    /\ AsMap(running_per_day) = {<<DateOf(RunA), 30>>}

(***************************************************************************)
(* C4.  Order independence.  As claimed: whatever records were fetched,    *)
(* repeated identifiers included, every order of them aggregates to the    *)
(* same mapping.                                                           *)
(***************************************************************************)
C4_AnyOrderSameAggregate ==
    JustAggregated =>
        \A p \in Permutations(1..Len(all_workouts)) :
            /\ Aggregated(Reordered(all_workouts, p)).ok
            /\ AsMap(Aggregated(Reordered(all_workouts, p)).dict)
                   = AsMap(running_per_day)

(***************************************************************************)
(* C4, amended.  When the records that share an identifier are identical   *)
(* (the same record fetched again), every order of the fetched records     *)
(* aggregates to the same mapping.                                         *)
(***************************************************************************)
C4_AnyOrderSameAggregateOfRepeats ==
    (JustAggregated /\ SameIdSameRecord(all_workouts)) =>
        \A p \in Permutations(1..Len(all_workouts)) :
            /\ Aggregated(Reordered(all_workouts, p)).ok
            /\ AsMap(Aggregated(Reordered(all_workouts, p)).dict)
                   = AsMap(running_per_day)

\* two records of one day, fetched in the order that puts the short one last
C4_Witness ==
    /\ AggregateReturned
    /\ all_workouts = <<LateA, ShortB>>
    /\ AsMap(running_per_day) = {<<DateOf(LateA), 45>>}

\* entry i of running_per_day resolves to a cell of the grid
EntryResolves(i) == Resolves(running_per_day[i].key, week_row_map, day_columns)

EntryRow(i) == CellRow(running_per_day[i].key, week_row_map)

EntryCol(i) == CellCol(running_per_day[i].key, day_columns)

\* the accepted calls of update_cell at one cell
OkCallsAt(row, col) == SelectSeq(CallsAt(row, col), LAMBDA c : c.ok)

\* calls k .. k + n - 1 are n rejected calls at one cell
FailedRun(k, n) ==
    /\ k >= 1
    /\ k + n - 1 <= Len(calls)
    /\ \A m \in k..(k + n - 1) :
          ~calls[m].ok /\ calls[m].row = calls[k].row /\ calls[m].col = calls[k].col

(***************************************************************************)
(* C5.  In one call of update_running_sheet an entry with 0 minutes never  *)
(* causes a cell write, accepted or not, and its cell keeps the content    *)
(* that was read; the cell of an entry with minutes > 0 is never written   *)
(* twice, only ever with the entry's minutes, and when the call returns it *)
(* has been written exactly once.                                          *)
(***************************************************************************)
C5_ZeroNeverPositiveOnce ==
    GridResolved =>
        \A i \in 1..Len(running_per_day) :
            EntryResolves(i) =>
                LET e == running_per_day[i]
                    r == EntryRow(i)
                    c == EntryCol(i)
                IN  /\ e.val = 0 =>
                           /\ CallsAt(r, c) = <<>>
                           /\ sheet[r][c] = all_values[r][c]
                    /\ e.val > 0 =>
                           /\ Len(OkCallsAt(r, c)) <= 1
                           /\ \A k \in 1..Len(CallsAt(r, c)) :
                                  CallsAt(r, c)[k].value = e.val
                           /\ Returned =>
                                  /\ Len(OkCallsAt(r, c)) = 1
                                  /\ sheet[r][c] = IntStr(e.val)

\* a call that returned with a written positive entry and a skipped zero one,
\* whose cell had content
C5_Witness ==
    /\ Returned
    /\ \E i, j \in 1..Len(running_per_day) :
          /\ EntryResolves(i) /\ running_per_day[i].val = 0
          /\ all_values[EntryRow(i)][EntryCol(i)] # <<>>
          /\ EntryResolves(j) /\ running_per_day[j].val > 0
          /\ Len(OkCallsAt(EntryRow(j), EntryCol(j))) = 1

(***************************************************************************)
(* C6.  Every cell write is attempted at most 4 times; once 4 attempts at  *)
(* one cell have failed the error leaves update_running_sheet (no return   *)
(* value) and no write is attempted for any later entry: the fourth        *)
(* failure is the last call of the run.                                    *)
(***************************************************************************)
C6_FourAttemptsThenAbort ==
    /\ \A k \in 1..Len(calls) : Len(CallsAt(calls[k].row, calls[k].col)) <= 4
    /\ \A k \in 1..Len(calls) :
          FailedRun(k, 4) =>
              /\ k + 3 = Len(calls)
              /\ pc = "error"
              /\ error = "WriteError"
              /\ ret = <<>>

\* the first write failed four times while a later positive entry that
\* resolves to a cell was still to be written
C6_Witness ==
    /\ pc = "error"
    /\ error = "WriteError"
    /\ FailedRun(1, 4)
    /\ pos < Len(running_per_day)
    /\ EntryResolves(pos + 1)
    /\ running_per_day[pos + 1].val > 0
    /\ CallsAt(EntryRow(pos + 1), EntryCol(pos + 1)) = <<>>

(***************************************************************************)
(* C7.  Transient write failures heal: a write error reaches the caller    *)
(* only after 4 consecutive failed attempts at one cell, so up to 3        *)
(* failures followed by a success raise nothing; every accepted write is   *)
(* counted as exactly one update whatever failed before it; and the call   *)
(* then goes on through the rest of the plan: when it returns, every       *)
(* positive entry that resolves to a cell has been written.                *)
(***************************************************************************)
C7_TransientFailuresHeal ==
    /\ error = "WriteError" => FailedRun(Len(calls) - 3, 4)
    /\ updates = Len(OkCalls)
    /\ (Len(calls) > 0 /\ calls[Len(calls)].ok) => pc \in {"update", "done"}
    /\ (Returned /\ GridResolved) =>
          /\ pos = Len(running_per_day) + 1
          /\ ret = <<Len(OkCalls)>>
          /\ \A i \in 1..Len(running_per_day) :
                (EntryResolves(i) /\ running_per_day[i].val > 0) =>
                    Len(OkCallsAt(EntryRow(i), EntryCol(i))) = 1

\* three failures, then success, then the next entry was written as well
C7_Witness ==
    /\ Returned
    /\ Len(calls) = 5
    /\ FailedRun(1, 3)
    /\ calls[4].ok /\ calls[4].row = calls[1].row /\ calls[4].col = calls[1].col
    /\ calls[5].ok /\ calls[5].col # calls[4].col
    /\ ret = <<2>>

(***************************************************************************)
(* C8.  When update_running_sheet returns normally its return value is the *)
(* number of cell writes that were applied during the call.  For the       *)
(* aggregate {2024-06-10: 30, 2024-06-11: 0} on a grid whose row 5 is the  *)
(* week of 2024-06-10 with Monday in column 2 and Tuesday in column 3,     *)
(* exactly one write is applied, cell(5,2)=30; cell(5,3) keeps its         *)
(* content; the return value is 1.                                         *)
(***************************************************************************)
C8_ReturnCountsAppliedWrites ==
    Returned =>
        /\ ret = <<Len(OkCalls)>>
        /\ (/\ all_values = SheetWeeks
            /\ AsMap(running_per_day) = {<<DaysFromCivil(2024, 6, 10), 30>>,
                                         <<DaysFromCivil(2024, 6, 11), 0>>})
           => /\ OkCalls = <<[row |-> 5, col |-> 2, value |-> 30, ok |-> TRUE]>>
              /\ ret = <<1>>
              /\ sheet[5] = <<<<"2", "0", "2", "4", "-", "0", "6", "-", "1", "0">>, <<"3", "0">>, <<"7">>>>
              /\ \A r \in 1..4 : sheet[r] = all_values[r]

\* the scenario has run to its return
C8_Witness ==
    /\ Returned
    /\ all_values = SheetWeeks
    /\ AsMap(running_per_day) = {<<DaysFromCivil(2024, 6, 10), 30>>,
                                 <<DaysFromCivil(2024, 6, 11), 0>>}
    /\ ret = <<1>>

(***************************************************************************)
(* C9.  As claimed: for every header cell whose trimmed text is a weekday  *)
(* name in any letter case, every aggregate date on that weekday resolves  *)
(* to that header's column, and when the date's week row exists and the    *)
(* call returns, positive minutes have been written in that column.        *)
(***************************************************************************)
C9_AnySpellingResolves ==
    GridResolved =>
        \A h \in 1..Len(all_values[1]) :
            \A i \in 1..Len(running_per_day) :
                Lower(Strip(all_values[1][h])) = Lower(get_day_name(running_per_day[i].key))
                => /\ get_day_name(running_per_day[i].key) \in DOMAIN day_columns
                   /\ day_columns[get_day_name(running_per_day[i].key)] = h - 1
                   /\ (/\ Returned
                       /\ get_monday(running_per_day[i].key) \in DOMAIN week_row_map
                       /\ running_per_day[i].val > 0)
                      => \E k \in 1..Len(calls) :
                            calls[k].ok /\ calls[k].col = h
                            /\ calls[k].value = running_per_day[i].val

(***************************************************************************)
(* C10.  weekStartToRow: each data row contributes at most one entry, the  *)
(* date of the leftmost cell of the row that parses as a date (later cells *)
(* of the row contribute nothing), and a date that marks several rows is   *)
(* mapped to the last of them.                                             *)
(***************************************************************************)
HasMarker(row) == \E j \in 1..Len(row) : ParseCellDate(row[j]).ok

Marker(row) ==
    ParseCellDate(row[CHOOSE j \in 1..Len(row) :
                          /\ ParseCellDate(row[j]).ok
                          /\ \A m \in 1..(j - 1) : ~ParseCellDate(row[m]).ok]).val

C10_LeftmostDateLastRow ==
    GridResolved =>
        LET marked == {i \in 2..Len(all_values) : HasMarker(all_values[i])}
        IN  /\ DOMAIN week_row_map = {Marker(all_values[i]) : i \in marked}
            /\ \A i \in marked :
                  /\ week_row_map[Marker(all_values[i])] >= i
                  /\ week_row_map[Marker(all_values[i])] \in marked
                  /\ Marker(all_values[week_row_map[Marker(all_values[i])]])
                         = Marker(all_values[i])

\* two rows marked 2024-06-10, the later one holding a second date
C10_Witness ==
    /\ GridResolved
    /\ all_values = SheetTwice
    /\ DOMAIN week_row_map = {DaysFromCivil(2024, 6, 10)}
    /\ week_row_map[DaysFromCivil(2024, 6, 10)] = 3

(***************************************************************************)
(* C11: a worksheet without rows, or without a weekday in its header row.  *)
(***************************************************************************)
\* the header row of the grid that was read names no weekday
NoWeekdayHeader ==
    \A c \in 1..Len(all_values[1]) :
        Lower(Strip(all_values[1][c])) \notin LowerDayNames

\* C11: when the grid that was read is empty, or its header row holds no
\* recognised weekday name, update_running_sheet makes no update_cell call,
\* leaves the sheet as it was and returns 0 without raising, whatever
\* aggregate it was given.
C11_MisconfiguredSheetReturnsZero ==
    (grid_reads > 0 /\ (all_values = <<>> \/ NoWeekdayHeader)) =>
        /\ pc = "done"
        /\ error = ""
        /\ ret = <<0>>
        /\ calls = <<>>
        /\ sheet = all_values

C11_Witness ==
    /\ Returned
    /\ all_values = SheetNoDays
    /\ \E i \in 1..Len(running_per_day) : running_per_day[i].val > 0

(***************************************************************************)
(* C12: an entry whose week row or weekday column is not found.            *)
(***************************************************************************)
\* the entries before position n that resolve to a cell and are positive
WritableBefore(n) ==
    {i \in 1..(n - 1) : EntryResolves(i) /\ running_per_day[i].val > 0}

\* C12: an aggregate date whose week row or weekday column is not found
\* causes no update_cell call and is not counted: every call is at the cell
\* of a resolved positive entry and the count is the number of resolved
\* positive entries passed so far.  Such a date does not end the loop: when
\* update_running_sheet returns it has passed every entry, and every entry
\* that resolves and is positive has been written.
C12_UnresolvedDateIsSkipped ==
    GridResolved =>
        /\ \A k \in 1..Len(calls) :
              \E i \in 1..Len(running_per_day) :
                  /\ EntryResolves(i)
                  /\ running_per_day[i].val > 0
                  /\ calls[k].row = EntryRow(i)
                  /\ calls[k].col = EntryCol(i)
        /\ updates = Cardinality(WritableBefore(pos))
        /\ Len(OkCalls) = updates
        /\ Returned =>
              /\ pos = Len(running_per_day) + 1
              /\ \A i \in 1..Len(running_per_day) :
                    (EntryResolves(i) /\ running_per_day[i].val > 0) =>
                        Len(OkCallsAt(EntryRow(i), EntryCol(i))) >= 1

C12_Witness ==
    /\ Returned
    /\ GridResolved
    /\ \E i, j \in 1..Len(running_per_day) :
          /\ i < j
          /\ ~EntryResolves(i)
          /\ running_per_day[i].val > 0
          /\ EntryResolves(j)
          /\ running_per_day[j].val > 0
          /\ Len(OkCallsAt(EntryRow(j), EntryCol(j))) = 1

(***************************************************************************)
(* C13: the values and keys of the returned DailyAggregate.                *)
(***************************************************************************)
\* C13: every value of the DailyAggregate returned by
\* get_running_activities_with_token is a non-negative integer, for every
\* sequence of input records, also those whose end is not after their
\* start, and each local date is a key at most once.
C13_ValuesNonNegativeKeysOnce ==
    JustAggregated =>
        /\ \A i \in 1..Len(running_per_day) : running_per_day[i].val >= 0
        /\ \A i, j \in 1..Len(running_per_day) :
              running_per_day[i].key = running_per_day[j].key => i = j

(***************************************************************************)
(* C14: the date a record is bucketed under, against offset arithmetic     *)
(* done by hand.                                                           *)
(***************************************************************************)
\* the records that are added to the aggregate
Added == {i \in 1..Len(all_workouts) : FirstRunWithId(all_workouts, i)}

\* the offsets of the form sign, HH, ':', MM that the records carry, in
\* seconds; a record without the field counts as +00:00
OffsetByHand(w) ==
    IF "timezone_offset" \notin DOMAIN w THEN 0
    ELSE IF w["timezone_offset"] = Plus2 THEN 2 * 3600
    ELSE IF w["timezone_offset"] = Minus5 THEN 0 - 5 * 3600
    ELSE 0

HasSignedOffset(w) ==
    "timezone_offset" \in DOMAIN w =>
        w["timezone_offset"] \in {UtcOffset, Plus2, Minus5}

\* day d holds the start of w on the wall clock of w's own offset
StartsOnLocalDay(w, d) ==
    LET local == ParseIsoUtc(w["start"]).val + OffsetByHand(w)
    IN  d * 86400 <= local /\ local < (d + 1) * 86400

Keys == {running_per_day[i].key : i \in 1..Len(running_per_day)}

\* C14: each added record is bucketed under the calendar date of its start
\* shifted by its own signed offset, not under the UTC date and not under
\* the date of its end: 2024-06-10T23:30:00Z at +02:00 counts under
\* 2024-06-11, 2024-06-17T02:00:00Z at -05:00 under 2024-06-16, a record
\* without an offset under its UTC date, and a record that ends on the next
\* day under the day it started.
C14_BucketedByShiftedStartDate ==
    JustAggregated =>
        /\ (\A i \in Added : HasSignedOffset(all_workouts[i])) =>
              /\ \A i \in Added :
                    \E d \in Keys : StartsOnLocalDay(all_workouts[i], d)
              /\ \A d \in Keys :
                    \E i \in Added : StartsOnLocalDay(all_workouts[i], d)
        /\ all_workouts = <<LateA>> => Keys = {MakeDate(2024, 6, 11).val}
        /\ all_workouts = <<NegC>> => Keys = {MakeDate(2024, 6, 16).val}
        /\ all_workouts = <<ShortB>> => Keys = {MakeDate(2024, 6, 11).val}
        /\ all_workouts = <<Ninety1>> => Keys = {MakeDate(2024, 6, 12).val}

\* a record moved to the next day and one moved to the previous day
C14_Witness ==
    /\ JustAggregated
    /\ all_workouts = <<LateA, NegC>>
    /\ Keys = {MakeDate(2024, 6, 11).val, MakeDate(2024, 6, 16).val}

(***************************************************************************)
(* C15: whole minutes per record, then the sum.                            *)
(***************************************************************************)
\* m is the number of whole minutes in s seconds, counted towards zero
IsWholeMinutes(s, m) ==
    IF s >= 0 THEN m * 60 <= s /\ s < (m + 1) * 60
    ELSE (0 - m) * 60 <= 0 - s /\ 0 - s < (1 - m) * 60

\* the seconds from the start of a record to its end
SecondsOf(w) == ParseIsoUtc(w["end"]).val - ParseIsoUtc(w["start"]).val

WholeMinutesOf(w) ==
    CHOOSE m \in (0 - 60)..60 : IsWholeMinutes(SecondsOf(w), m)

\* the whole minutes of the records ws[i], i in I, that start on date d
RECURSIVE WholeMinutesOn(_, _, _)
WholeMinutesOn(ws, I, d) ==
    IF I = {} THEN 0
    ELSE LET i == CHOOSE k \in I : TRUE
         IN  (IF DateOf(ws[i]) = d THEN WholeMinutesOf(ws[i]) ELSE 0)
             + WholeMinutesOn(ws, I \ {i}, d)

\* C15: the minutes of a record are the whole minutes from its start to its
\* end, cut off per record before the records of a day are summed: 45
\* seconds count 0 and two records of 90 seconds on one day count 1 + 1 = 2.
\* A record that counts 0 is still added, so its local date is a key of the
\* DailyAggregate.
C15_TruncatedPerRecordThenSummed ==
    JustAggregated =>
        /\ \A i \in Added : DateOf(all_workouts[i]) \in Keys
        /\ \A k \in 1..Len(running_per_day) :
              running_per_day[k].val =
                  WholeMinutesOn(all_workouts, Added, running_per_day[k].key)
        /\ all_workouts = <<ShortB>> =>
              AsMap(running_per_day) = {<<MakeDate(2024, 6, 11).val, 0>>}
        /\ all_workouts = <<Ninety1, Ninety2>> =>
              AsMap(running_per_day) = {<<MakeDate(2024, 6, 12).val, 2>>}

\* two records of 90 seconds on one day were aggregated
C15_Witness ==
    /\ JustAggregated
    /\ all_workouts = <<Ninety1, Ninety2>>
    /\ SecondsOf(Ninety1) = 90
    /\ SecondsOf(Ninety2) = 90
    /\ running_per_day = <<[key |-> MakeDate(2024, 6, 12).val, val |-> 2]>>

(***************************************************************************)
(* C16: offsets that are not of the form sign, HH, ':', MM.                *)
(***************************************************************************)
\* sign '+' or '-', two hour digits, a colon, two minute digits
IsSignedHHMM(o) ==
    /\ Len(o) = 6
    /\ o[1] \in {"+", "-"}
    /\ IsDigit(o[2]) /\ IsDigit(o[3])
    /\ o[4] = ":"
    /\ IsDigit(o[5]) /\ IsDigit(o[6])

\* get_running_activities_with_token has run to its end or to an exception
AggregateEnded ==
    pc \in {"sheet", "update", "done"} \/ (pc = "error" /\ error # "FetchError")

\* C16: an offset string that is not of the form sign, HH, ':', MM with
\* sign '+' or '-', such as "02:00", makes parse_whoop_local_datetime fail
\* with a parse error: a run that localizes a record with such an offset
\* ends in that error and returns no aggregate.
C16_MalformedOffsetIsParseError ==
    (/\ AggregateEnded
     /\ \E i \in Added :
           ~IsSignedHHMM(Get(all_workouts[i], "timezone_offset", UtcOffset)))
        => pc = "error" /\ error = "ParseError"

(***************************************************************************)
(* C17: the order of the phases of one run.                                *)
(***************************************************************************)
\* a step that fetches a page, completes the aggregate, reads the grid, or
\* calls update_cell
PageFetched == page_count' = page_count + 1

AggregateCompleted == pc = "aggregate" /\ pc' = "sheet"

GridRead == grid_reads' # grid_reads

CellCalled == calls' # calls

\* C17: the phases of a run are strictly ordered.  Pages are fetched and
\* the aggregate is completed only while the worksheet has been neither
\* read nor written; the grid is read only after the last page and the
\* complete aggregate, only once, and before every update_cell call; after
\* the read the grid that was read and the aggregate stay as they are, and
\* no page is fetched and no grid is read after a cell write.
C17_PhasesStrictlyOrdered ==
    [][/\ (PageFetched \/ all_workouts' # all_workouts) =>
             pc = "fetch" /\ grid_reads = 0 /\ calls = <<>>
       /\ (AggregateCompleted \/ running_per_day' # running_per_day) =>
             pc = "aggregate" /\ grid_reads = 0 /\ calls = <<>>
       /\ GridRead =>
             /\ pc = "sheet"
             /\ grid_reads = 0 /\ grid_reads' = 1
             /\ calls = <<>> /\ calls' = <<>>
       /\ CellCalled =>
             /\ pc = "update"
             /\ grid_reads = 1 /\ grid_reads' = 1
             /\ Len(calls') = Len(calls) + 1
       /\ grid_reads = 1 =>
             /\ all_values' = all_values
             /\ day_columns' = day_columns
             /\ week_row_map' = week_row_map
             /\ running_per_day' = running_per_day
       /\ sheet' # sheet => GridRead \/ CellCalled
      ]_vars

\* two records were fetched, then the grid was read, then a cell was written
C17_Witness ==
    /\ pc = "done"
    /\ Len(all_workouts) = 2
    /\ grid_reads = 1
    /\ Len(OkCalls) >= 1
    /\ sheet # all_values

(***************************************************************************)
(* C18: an empty DailyAggregate.                                           *)
(***************************************************************************)
\* C18: when the aggregation returns an empty DailyAggregate the run ends
\* normally: no error, no read of the worksheet, no update_cell call, and
\* update_running_sheet is not called at all.
C18_EmptyAggregateEndsQuietly ==
    (AggregateReturned /\ running_per_day = <<>>) =>
        /\ pc \in {"sheet", "done"}
        /\ error = ""
        /\ grid_reads = 0
        /\ calls = <<>>
        /\ sheet = <<>>
        /\ ret = <<>>

\* records were fetched, none of them qualified, and the run has ended
C18_Witness ==
    /\ pc = "done"
    /\ error = ""
    /\ all_workouts # <<>>
    /\ running_per_day = <<>>
    /\ grid_reads = 0

(***************************************************************************)
(* C19: applying one aggregate twice.  As claimed: the second application  *)
(* to the worksheet the first one left changes no cell.                    *)
(***************************************************************************)
C19_SecondRunChangesNothing ==
    Returned => ApplyAll(sheet, running_per_day) = sheet

\* no cell of a data row that stands under a weekday header holds a date
NoDateUnderWeekday(grid) ==
    \A r \in 2..Len(grid) :
        \A c \in 1..Len(grid[r]) :
            (c <= Len(grid[1]) /\ Lower(Strip(grid[1][c])) \in LowerDayNames)
                => ~ParseCellDate(grid[r][c]).ok

\* C19 (amended): on a worksheet where no data-row cell under a weekday
\* header holds a date, applying the same DailyAggregate a second time to
\* the worksheet the first complete run left changes no cell.  (A date
\* marker that stands in a weekday column can be overwritten by the first
\* run, and the second run then resolves the week to another row.)
C19_SecondRunChangesNothingOffMarkers ==
    Returned =>
        /\ sheet = ApplyAll(all_values, running_per_day)
        /\ NoDateUnderWeekday(all_values) =>
              ApplyAll(sheet, running_per_day) = sheet

\* a run on such a worksheet has written a cell
C19_Witness ==
    /\ Returned
    /\ all_values # <<>>
    /\ NoDateUnderWeekday(all_values)
    /\ sheet # all_values

(***************************************************************************)
(* C20: where the writes of update_running_sheet go, and what they leave.  *)
(***************************************************************************)
\* the call c writes the minutes of an aggregate entry to the sheet row
\* that holds the Monday of the entry's week and to the sheet column whose
\* header is the entry's weekday
AtCellOfEntry(c) ==
    /\ c.row \in 2..Len(all_values)
    /\ c.col \in 1..Len(all_values[1])
    /\ HasMarker(all_values[c.row])
    /\ \E i \in 1..Len(running_per_day) :
          /\ running_per_day[i].val = c.value
          /\ Marker(all_values[c.row]) = get_monday(running_per_day[i].key)
          /\ Strip(all_values[1][c.col]) = get_day_name(running_per_day[i].key)

\* C20: every update_cell call targets the 1-indexed sheet row of the data
\* row that holds the Monday marker of the date (row 2 or below, never the
\* header row) and the 1-indexed sheet column of the matching weekday
\* header (its 0-based position plus 1); every other cell of the sheet,
\* cells under other headers included, keeps the content that was read.
C20_WritesOnlyTheResolvedCell ==
    GridResolved =>
        /\ \A k \in 1..Len(calls) : AtCellOfEntry(calls[k])
        /\ Len(sheet) = Len(all_values)
        /\ \A r \in 1..Len(all_values) :
              /\ Len(sheet[r]) = Len(all_values[r])
              /\ \A c \in 1..Len(all_values[r]) :
                    sheet[r][c] # all_values[r][c] =>
                        \E k \in 1..Len(calls) :
                            /\ calls[k].ok
                            /\ calls[k].row = r
                            /\ calls[k].col = c
                            /\ sheet[r][c] = IntStr(calls[k].value)

\* Monday 2024-06-10 was written to row 5, column 2 of the weeks sheet; the
\* marker in column 1 and the Tuesday cell of that row are as they were
C20_Witness ==
    /\ Returned
    /\ all_values = SheetWeeks
    /\ \E k \in 1..Len(calls) :
          calls[k].ok /\ calls[k].row = 5 /\ calls[k].col = 2
    /\ sheet[5][2] # all_values[5][2]
    /\ sheet[5][1] = all_values[5][1]
    /\ sheet[5][3] = all_values[5][3]

=============================================================================
